---- MODULE Spec2Model ----
(***************************************************************************)
(* State-machine model of kubedog's multitrack orchestrator                *)
(* (pkg/trackers/rollout/multitrack/multitrack.go) and of the stateful-set *)
(* completeness predicate (pkg/tracker/statefulset/rollout_status.go).     *)
(*                                                                         *)
(* Go strings are TLA+ strings; a Go *int is a sequence: <<>> is nil and   *)
(* <<n>> points to n; a Go map is a function whose DOMAIN is its key set.  *)
(***************************************************************************)
EXTENDS Integers, Sequences, FiniteSets, TLC

\* ------------------------------------------------------------- bounds ----
\* failure notifications one watcher delivers at most
MaxFailures == 2
\* periodic ticks of statusReportTicker that fire at most
MaxTicks == 1
\* the largest AllowFailuresCount and FailureThresholdSeconds of a raw spec
MaxAllowed == 2
MaxThreshold == 1
\* the largest replica count and partition of a stateful set
MaxReplicas == 2

\* ---------------------------------------------------------- constants ----
IgnoreAndContinueDeployProcess == "IgnoreAndContinueDeployProcess"
FailWholeDeployProcessImmediately == "FailWholeDeployProcessImmediately"
HopeUntilEndOfDeployProcess == "HopeUntilEndOfDeployProcess"
FailModes ==
  {IgnoreAndContinueDeployProcess, FailWholeDeployProcessImmediately,
   HopeUntilEndOfDeployProcess}

ControllerIsReady == "ControllerIsReady"
PodIsReady == "PodIsReady"
EndOfDeploy == "EndOfDeploy"

\* tracker.StopTrack, the sentinel a handler returns to stop its watcher
StopTrack == "StopTrack"
\* a nil error
NilError == "nil"

\* The five resource kinds, in the order Multitrack walks them; each is the
\* prefix the code prints for the kind.
Kinds == <<"po", "deploy", "sts", "ds", "job">>
KindSet == {Kinds[i] : i \in 1..Len(Kinds)}

\* ------------------------------------------------------------- inputs ----
\* resource names, in the order they appear in a spec list
NameOrder == <<"a", "b">>
Names == {NameOrder[i] : i \in 1..Len(NameOrder)}
\* the resources a run may be asked to track: <<kind, name>>
Pool ==
  {<<"po", "a">>, <<"po", "b">>, <<"deploy", "a">>, <<"deploy", "b">>}
\* the sets of resources of the runs explored
Runs ==
  {{}, {<<"po", "a">>}, {<<"deploy", "a">>},
   {<<"po", "a">>, <<"deploy", "a">>}, {<<"deploy", "a">>, <<"deploy", "b">>}}
\* reasons carried by failure notifications
Reasons == {"x", "y"}
\* hard errors a watcher's Track call may return
TrackErrors == {"e"}

\* ------------------------------------------------------------ helpers ----
\* a Go map with key k removed: delete(m, k)
MapDelete(m, k) == [n \in (DOMAIN m) \ {k} |-> m[n]]
\* a Go map with m[k] = v
MapPut(m, k, v) == [n \in (DOMAIN m) \cup {k} |-> IF n = k THEN v ELSE m[n]]
EmptyMap == [n \in {} |-> 0]

\* all orders in which a range loop may visit the key set S
RECURSIVE Orders(_)
Orders(S) ==
  IF S = {} THEN {<<>>}
  ELSE UNION {{<<k>> \o o : o \in Orders(S \ {k})} : k \in S}

\* strings.Join(parts, sep)
RECURSIVE Join(_, _)
Join(parts, sep) ==
  IF Len(parts) = 0 THEN ""
  ELSE IF Len(parts) = 1 THEN parts[1]
  ELSE parts[1] \o sep \o Join(Tail(parts), sep)

\* ------------------------------------------------------- spec defaults ---
\* a variant that takes an allowed-failure count of 0 for an absent one
setDefaultSpecValues_ZeroIsAbsent(spec) ==
  [spec EXCEPT
     !.FailMode = IF @ = "" THEN FailWholeDeployProcessImmediately ELSE @,
     !.AllowFailuresCount = IF @ = <<>> \/ @ = <<0>> THEN <<1>> ELSE @,
     !.FailureThresholdSeconds = IF @ = <<>> THEN <<0>> ELSE @,
     !.ShowLogsUntil = IF @ = "" THEN PodIsReady ELSE @]

setDefaultSpecValues(spec) ==
  [spec EXCEPT
     !.FailMode = IF @ = "" THEN FailWholeDeployProcessImmediately ELSE @,
     !.AllowFailuresCount = IF @ = <<>> THEN <<1>> ELSE @,
     !.FailureThresholdSeconds = IF @ = <<>> THEN <<0>> ELSE @,
     !.ShowLogsUntil = IF @ = "" THEN PodIsReady ELSE @]

\* ------------------------------------------------------------- state -----
VARIABLES
  specs,                   \* MultitrackSpecs: kind -> list of MultitrackSpec
  mainPc,                  \* position of Multitrack itself
  result,                  \* what Multitrack returned
  ticks,                   \* ticks of statusReportTicker consumed so far
  tracking,                \* mt.Tracking<Kind>: kind -> (name -> state)
  statuses,                \* mt.<Kind>Statuses: kind -> (name -> snapshot)
  DeploymentsSpecs,        \* mt.DeploymentsSpecs
  ShownDeploymentMessages, \* mt.ShownDeploymentMessages
  handlerMux,              \* mt.handlerMux: "free" or its holder
  wg,                      \* the sync.WaitGroup counter
  wpc,                     \* position of each watcher goroutine
  exit,                    \* how each watcher's Track call returned
  failuresReported,        \* failure notifications delivered by each feed
  errorChan,               \* the sends blocked on errorChan (unbuffered)
  doneChan,                \* TRUE while a send is blocked on doneChan
  cpc,                     \* position of the completion goroutine
  sink,                    \* the report frames written to display.Out
  statefulSet,             \* the *appsv1.StatefulSet StatefulSetComplete gets
  stsComplete              \* what StatefulSetComplete returned: <<>>, <<bool>>

vars ==
  <<specs, mainPc, result, ticks, tracking, statuses, DeploymentsSpecs,
    ShownDeploymentMessages, handlerMux, wg, wpc, exit, failuresReported,
    errorChan, doneChan, cpc, sink, statefulSet, stsComplete>>

\* the variables StatefulSetComplete works on
stsVars == <<statefulSet, stsComplete>>

\* ----------------------------------------------------- tracked states ----
\* &multitrackerResourceState{}
NewResourceState ==
  [IsFailed |-> FALSE, LastFailureReason |-> "", FailuresCount |-> 0]

\* the names of kind k whose state is in the tracked set and marked failed
FailedNames(mt, k) == {n \in DOMAIN mt[k] : mt[k][n].IsFailed}

isTrackingAnyNonFailedResource(mt) ==
  \E k \in KindSet : \E n \in DOMAIN mt[k] : ~mt[k][n].IsFailed

\* a variant that looks at the pods only
hasFailedTrackingResources_PodsOnly(mt) ==
  \E n \in DOMAIN mt["po"] : mt["po"][n].IsFailed

hasFailedTrackingResources(mt) ==
  \E k \in KindSet : \E n \in DOMAIN mt[k] : mt[k][n].IsFailed

\* the orders in which the range loops over the five maps of t may run:
\* one order of the keys per kind
IterOrders(t) ==
  {o \in [KindSet -> UNION {Orders(DOMAIN t[k]) : k \in KindSet}] :
     \A k \in KindSet : o[k] \in Orders(DOMAIN t[k])}

\* fmt.Sprintf("<kind>/%s failed: %s", name, state.LastFailureReason)
FailedLine(k, name, state) ==
  k \o "/" \o name \o " failed: " \o state.LastFailureReason

\* one of the five loops of formatFailedTrackingResourcesError
RECURSIVE FailedParts(_, _, _)
FailedParts(states, k, order) ==
  IF Len(order) = 0 THEN <<>>
  ELSE (IF ~states[Head(order)].IsFailed THEN <<>>
        ELSE <<FailedLine(k, Head(order), states[Head(order)])>>)
       \o FailedParts(states, k, Tail(order))

\* a variant whose loops do not skip the states that are not failed
formatFailedTrackingResourcesError_NoFilter(mt, ord) ==
  LET all(k) == [i \in 1..Len(ord[k]) |->
                   FailedLine(k, ord[k][i], mt[k][ord[k][i]])]
  IN  Join(all("po") \o all("deploy") \o all("sts") \o all("ds")
           \o all("job"), "\n")

\* the error text; ord gives the iteration order of each map
formatFailedTrackingResourcesError(mt, ord) ==
  Join(FailedParts(mt["po"], "po", ord["po"])
       \o FailedParts(mt["deploy"], "deploy", ord["deploy"])
       \o FailedParts(mt["sts"], "sts", ord["sts"])
       \o FailedParts(mt["ds"], "ds", ord["ds"])
       \o FailedParts(mt["job"], "job", ord["job"]), "\n")

\* a variant that keeps the state of a resource that is marked failed
handleResourceReadyCondition_KeepsFailed(resourcesStates, spec) ==
  [states |-> IF resourcesStates[spec.ResourceName].IsFailed
              THEN resourcesStates
              ELSE MapDelete(resourcesStates, spec.ResourceName),
   ret |-> StopTrack]

\* returns the map after the call and the error returned
handleResourceReadyCondition(resourcesStates, spec) ==
  [states |-> MapDelete(resourcesStates, spec.ResourceName),
   ret |-> StopTrack]

\* a variant whose IgnoreAndContinueDeployProcess branch latches the failure
\* as the HopeUntilEndOfDeployProcess branch does, and stops the watcher
handleResourceFailure_IgnoreLatches(resourcesStates, spec, reason) ==
  LET name == spec.ResourceName
      counted ==
        [resourcesStates EXCEPT ![name].FailuresCount = @ + 1]
      failed ==
        [counted EXCEPT ![name].IsFailed = TRUE,
                        ![name].LastFailureReason = reason]
  IN  IF counted[name].FailuresCount <= spec.AllowFailuresCount[1]
      THEN [states |-> counted, ret |-> NilError]
      ELSE IF spec.FailMode = HopeUntilEndOfDeployProcess
      THEN [states |-> failed, ret |-> NilError]
      ELSE [states |-> failed, ret |-> StopTrack]

\* a variant of the failure handler: tolerance compared with <, whether the
\* count is skipped once the resource is marked failed, what each fail mode
\* does to the state (mark: latch the failure, else delete the state), and
\* what it returns
FailureHandlerVariant(resourcesStates, spec, reason, strict, skip, mark, ret) ==
  LET name == spec.ResourceName
      old == resourcesStates[name]
      counted ==
        IF skip /\ old.IsFailed THEN resourcesStates
        ELSE [resourcesStates EXCEPT ![name].FailuresCount = @ + 1]
      within ==
        IF strict
        THEN counted[name].FailuresCount < spec.AllowFailuresCount[1]
        ELSE counted[name].FailuresCount <= spec.AllowFailuresCount[1]
      failed ==
        [counted EXCEPT ![name].IsFailed = TRUE,
                        ![name].LastFailureReason = reason]
  IN  IF within /\ ~(skip /\ old.IsFailed)
      THEN [states |-> counted, ret |-> NilError]
      ELSE [states |-> IF mark[spec.FailMode] = "mark" THEN failed
                       ELSE MapDelete(counted, name),
            ret |-> ret[spec.FailMode]]

\* what the code does per fail mode
CodeMarks ==
  [m \in FailModes |->
     IF m = IgnoreAndContinueDeployProcess THEN "delete" ELSE "mark"]
CodeReturns ==
  [m \in FailModes |->
     IF m = HopeUntilEndOfDeployProcess THEN NilError ELSE StopTrack]

\* HopeUntilEndOfDeployProcess stops the watcher as the immediate mode does
handleResourceFailure_HopeStops(resourcesStates, spec, reason) ==
  FailureHandlerVariant(resourcesStates, spec, reason, FALSE, FALSE,
    CodeMarks,
    [CodeReturns EXCEPT ![HopeUntilEndOfDeployProcess] = StopTrack])

\* a resource already marked failed only has its reason replaced
handleResourceFailure_SkipsCount(resourcesStates, spec, reason) ==
  FailureHandlerVariant(resourcesStates, spec, reason, FALSE, TRUE,
    CodeMarks, CodeReturns)

\* the tolerance is compared with < instead of <=
handleResourceFailure_OffByOne(resourcesStates, spec, reason) ==
  FailureHandlerVariant(resourcesStates, spec, reason, TRUE, FALSE,
    CodeMarks, CodeReturns)

\* FailWholeDeployProcessImmediately forgets the resource instead of
\* marking it failed
handleResourceFailure_ImmediateForgets(resourcesStates, spec, reason) ==
  FailureHandlerVariant(resourcesStates, spec, reason, FALSE, FALSE,
    [CodeMarks EXCEPT ![FailWholeDeployProcessImmediately] = "delete"],
    CodeReturns)

handleResourceFailure(resourcesStates, spec, reason) ==
  LET name == spec.ResourceName
      counted ==
        [resourcesStates EXCEPT ![name].FailuresCount = @ + 1]
  IN  IF counted[name].FailuresCount <= spec.AllowFailuresCount[1]
      THEN [states |-> counted, ret |-> NilError]
      ELSE IF spec.FailMode = FailWholeDeployProcessImmediately
      THEN [states |-> [counted EXCEPT ![name].IsFailed = TRUE,
                                       ![name].LastFailureReason = reason],
            ret |-> StopTrack]
      ELSE IF spec.FailMode = HopeUntilEndOfDeployProcess
      THEN [states |-> [counted EXCEPT ![name].IsFailed = TRUE,
                                       ![name].LastFailureReason = reason],
            ret |-> NilError]
      ELSE IF spec.FailMode = IgnoreAndContinueDeployProcess
      THEN [states |-> MapDelete(counted, name), ret |-> StopTrack]
      ELSE [states |-> counted, ret |-> "panic"]

\* ------------------------------------------------------ status report ----
\* one line written to display.Out: what it is (t), the resource it is
\* about, its text and the colour the text is wrapped in
Line(t, kind, name, text, color) ==
  [t |-> t, kind |-> kind, name |-> name, text |-> text, color |-> color]

\* the "- <time> <type>:<status>[ <reason>][ <message>]" lines of a
\* Conditions list
CondText(cond) ==
  "- " \o cond.LastTransitionTime \o " " \o cond.Type \o ":" \o cond.Status
  \o (IF cond.Reason # "" THEN " " \o cond.Reason ELSE "")
  \o (IF cond.Message # "" THEN " " \o cond.Message ELSE "")

ConditionLines(k, name, conds) ==
  (IF Len(conds) > 0 THEN <<Line("conditions", k, name, "Conditions:", "")>>
   ELSE <<>>)
  \o [i \in 1..Len(conds) |-> Line("cond", k, name, CondText(conds[i]), "")]

\* the block of one pod, stateful set, daemon set or job
CountersText(k, status) ==
  IF k = "sts"
  THEN "Replicas:" \o ToString(status.Replicas)
       \o " ReadyReplicas:" \o ToString(status.ReadyReplicas)
       \o " CurrentReplicas:" \o ToString(status.CurrentReplicas)
       \o " UpdatedReplicas:" \o ToString(status.UpdatedReplicas)
  ELSE IF k = "ds"
  THEN "CurrentNumberScheduled:" \o ToString(status.CurrentNumberScheduled)
       \o " NumberReady:" \o ToString(status.NumberReady)
       \o " NumberAvailable:" \o ToString(status.NumberAvailable)
       \o " NumberUnavailable:" \o ToString(status.NumberUnavailable)
  ELSE "Active:" \o ToString(status.Active)
       \o " Succeeded:" \o ToString(status.Succeeded)
       \o " Failed:" \o ToString(status.Failed)

PlainBlock(k, name, status) ==
  <<Line("resource", k, name, k \o "/" \o name, "")>>
  \o (IF k = "po"
      THEN (IF status.Phase # ""
            THEN <<Line("phase", k, name, "Phase:" \o status.Phase, "")>>
            ELSE <<>>)
      ELSE <<Line("counters", k, name, CountersText(k, status), "")>>)
  \o (IF k = "job"
      THEN <<Line("times", k, name,
                  "StartTime:" \o status.StartTime
                  \o " CompletionTime:" \o status.CompletionTime, "")>>
      ELSE <<>>)
  \o ConditionLines(k, name, status.Conditions)

\* the colour of a deployment's header line, by fail mode
DeploymentColor(spec, status) ==
  IF spec.FailMode = FailWholeDeployProcessImmediately
  THEN (IF status.ReadyStatus.IsReady THEN "green"
        ELSE IF status.IsFailed THEN "red" ELSE "yellow")
  ELSE IF spec.FailMode = IgnoreAndContinueDeployProcess
  THEN (IF status.ReadyStatus.IsReady THEN "green" ELSE "")
  ELSE IF spec.FailMode = HopeUntilEndOfDeployProcess
  THEN (IF status.ReadyStatus.IsReady THEN "green" ELSE "yellow")
  ELSE "none"

\* a variant that writes the lines but never records a message as shown
RECURSIVE ShowOnce_NoRecord(_, _, _, _)
ShowOnce_NoRecord(t, name, conds, shown) ==
  IF Len(conds) = 0 THEN [lines |-> <<>>, shown |-> shown]
  ELSE LET cond == Head(conds)
           rest == ShowOnce_NoRecord(t, name, Tail(conds), shown)
       IN  [lines |->
              (IF cond.IsSatisfied /\ cond.Message \notin shown
               THEN <<[t |-> t, kind |-> "deploy", name |-> name,
                       text |-> cond.Message,
                       color |-> IF t = "progress" THEN "blue"
                                 ELSE "green"]>>
               ELSE <<>>) \o rest.lines,
            shown |-> shown]

\* a variant that does not look at IsSatisfied
RECURSIVE ShowOnce_AnyCondition(_, _, _, _)
ShowOnce_AnyCondition(t, name, conds, shown) ==
  IF Len(conds) = 0 THEN [lines |-> <<>>, shown |-> shown]
  ELSE LET cond == Head(conds)
           fresh == cond.Message \notin shown
           rest == ShowOnce_AnyCondition(t, name, Tail(conds),
                                         IF fresh
                                         THEN shown \cup {cond.Message}
                                         ELSE shown)
       IN  [lines |->
              (IF fresh
               THEN <<[t |-> t, kind |-> "deploy", name |-> name,
                       text |-> cond.Message,
                       color |-> IF t = "progress" THEN "blue"
                                 ELSE "green"]>>
               ELSE <<>>) \o rest.lines,
            shown |-> rest.shown]

\* the satisfied conditions of conds not shown before, each shown once:
\* the lines written and the messages shown afterwards
RECURSIVE ShowOnce(_, _, _, _)
ShowOnce(t, name, conds, shown) ==
  IF Len(conds) = 0 THEN [lines |-> <<>>, shown |-> shown]
  ELSE LET cond == Head(conds)
           fresh == cond.IsSatisfied /\ cond.Message \notin shown
           rest == ShowOnce(t, name, Tail(conds),
                            IF fresh THEN shown \cup {cond.Message}
                            ELSE shown)
       IN  [lines |->
              (IF fresh
               THEN <<Line(t, "deploy", name, cond.Message,
                           IF t = "progress" THEN "blue" ELSE "green")>>
               ELSE <<>>) \o rest.lines,
            shown |-> rest.shown]

\* the messages of the conditions that are not satisfied
UnreadyMsgs(conds) ==
  LET unready == SelectSeq(conds, LAMBDA c : ~c.IsSatisfied)
  IN  [i \in 1..Len(unready) |-> unready[i].Message]

\* the lines of the failed pods of a deployment
FailedPodLines(name, pods, order) ==
  LET failed == SelectSeq(order, LAMBDA p : pods[p].IsFailed)
  IN  [i \in 1..Len(failed) |->
         Line("podfailed", "deploy", name,
              "pod/" \o failed[i] \o " " \o pods[failed[i]].FailedReason,
              "red")]

\* the block of one deployment: its lines and the messages shown afterwards
DeploymentBlock(name, status, spec, shown) ==
  LET color == DeploymentColor(spec, status)
      header ==
        Line("resource", "deploy", name,
             IF color = "none" THEN "" ELSE "deploy/" \o name,
             IF color = "none" THEN "" ELSE color)
      podOrder == CHOOSE o \in Orders(DOMAIN status.Pods) : TRUE
      podLines == FailedPodLines(name, status.Pods, podOrder)
      prog == ShowOnce("progress", name,
                       status.ReadyStatus.ProgressingConditions, shown)
      unready == UnreadyMsgs(status.ReadyStatus.ReadyConditions)
      ready == ShowOnce("ready", name, status.ReadyStatus.ReadyConditions,
                        prog.shown)
  IN  IF status.IsFailed
      THEN [lines |-> <<header,
                        Line("failed", "deploy", name, status.FailedReason,
                             "red")>> \o podLines,
            shown |-> shown]
      ELSE [lines |-> <<header>> \o prog.lines
                      \o (IF Len(unready) > 0
                          THEN <<Line("unready", "deploy", name,
                                      Join(unready, ", "), "yellow")>>
                          ELSE <<>>)
                      \o ready.lines \o podLines,
            shown |-> ready.shown]

\* the loop over mt.DeploymentsStatuses
RECURSIVE DeploymentBlocks(_, _, _, _)
DeploymentBlocks(order, sts, dspecs, shownAll) ==
  IF Len(order) = 0 THEN [lines |-> <<>>, shown |-> shownAll]
  ELSE LET name == Head(order)
           had == IF name \in DOMAIN shownAll THEN shownAll[name] ELSE {}
           blk == DeploymentBlock(name, sts[name], dspecs[name], had)
           rest == DeploymentBlocks(Tail(order), sts, dspecs,
                                    MapPut(shownAll, name, blk.shown))
       IN  [lines |-> blk.lines \o rest.lines, shown |-> rest.shown]

\* the loop over one of the other status maps
RECURSIVE PlainBlocks(_, _, _)
PlainBlocks(k, order, sts) ==
  IF Len(order) = 0 THEN <<>>
  ELSE PlainBlock(k, Head(order), sts[Head(order)])
       \o PlainBlocks(k, Tail(order), sts)

\* one of the five closing loops: tracked, but no status received yet
UnavailableLines(k, order, sts) ==
  LET missing == SelectSeq(order, LAMBDA n : n \notin DOMAIN sts)
  IN  [i \in 1..Len(missing) |->
         Line("unavailable", k, missing[i],
              k \o "/" \o missing[i] \o " status unavailable", "")]

\* PrintStatusReport: the frame written and mt.ShownDeploymentMessages
\* afterwards. ordS and ordT give the iteration orders of the status maps
\* and of the tracked maps. It always returns a nil error.
PrintStatusReport(sts, mt, dspecs, shownAll, ordS, ordT) ==
  LET deploys == DeploymentBlocks(ordS["deploy"], sts["deploy"], dspecs,
                                  shownAll)
  IN  [frame |->
         <<Line("top", "", "", "Status Report", "bold")>>
         \o PlainBlocks("po", ordS["po"], sts["po"])
         \o deploys.lines
         \o PlainBlocks("sts", ordS["sts"], sts["sts"])
         \o PlainBlocks("ds", ordS["ds"], sts["ds"])
         \o PlainBlocks("job", ordS["job"], sts["job"])
         \o UnavailableLines("po", ordT["po"], sts["po"])
         \o UnavailableLines("deploy", ordT["deploy"], sts["deploy"])
         \o UnavailableLines("sts", ordT["sts"], sts["sts"])
         \o UnavailableLines("ds", ordT["ds"], sts["ds"])
         \o UnavailableLines("job", ordT["job"], sts["job"])
         \o <<Line("bottom", "", "", "Status Report", "bold")>>,
       shown |-> deploys.shown]

\* --------------------------------------------------- inputs of a run -----
\* the fail modes and allowed-failure counts a caller may give; "" and <<>>
\* are the absent fields. Runs of two resources are explored with the
\* default tolerance, runs of one resource with every tolerance.
RawSettings ==
  [FailMode : {""} \cup FailModes,
   AllowFailuresCount : {<<>>, <<0>>, <<1>>}]

\* MultitrackSpecs for the resources R with the settings f
MakeSpecs(R, f) ==
  [k \in KindSet |->
     LET names == SelectSeq(NameOrder, LAMBDA n : <<k, n>> \in R)
     IN  [i \in 1..Len(names) |->
            [ResourceName |-> names[i],
             Namespace |-> "ns",
             FailMode |-> f[<<k, names[i]>>].FailMode,
             AllowFailuresCount |-> f[<<k, names[i]>>].AllowFailuresCount,
             FailureThresholdSeconds |-> <<>>,
             ShowLogsUntil |-> ""]]]

\* the resources of specs, in the order Multitrack registers them
ResList(sp, k) == [i \in 1..Len(sp[k]) |-> <<k, sp[k][i].ResourceName>>]
Flat(sp) ==
  ResList(sp, "po") \o ResList(sp, "deploy") \o ResList(sp, "sts")
  \o ResList(sp, "ds") \o ResList(sp, "job")
Resources == {Flat(specs)[i] : i \in 1..Len(Flat(specs))}

\* the spec of resource r
SpecOf(r) ==
  LET l == SelectSeq(specs[r[1]], LAMBDA sp : sp.ResourceName = r[2])
  IN  l[1]

\* the status snapshots the watcher of a resource of kind k may deliver
Progressing(msg) ==
  [ReadyStatus |->
     [IsReady |-> FALSE,
      ProgressingConditions |-> <<[Message |-> msg, IsSatisfied |-> TRUE]>>,
      ReadyConditions |-> <<[Message |-> "up", IsSatisfied |-> FALSE]>>],
   IsFailed |-> FALSE, FailedReason |-> "", Pods |-> EmptyMap]
ReadyDeployment ==
  [ReadyStatus |->
     [IsReady |-> TRUE,
      ProgressingConditions |-> <<[Message |-> "m1", IsSatisfied |-> TRUE]>>,
      ReadyConditions |-> <<[Message |-> "up", IsSatisfied |-> TRUE]>>],
   IsFailed |-> FALSE, FailedReason |-> "", Pods |-> EmptyMap]
FailedDeployment ==
  [ReadyStatus |->
     [IsReady |-> FALSE, ProgressingConditions |-> <<>>,
      ReadyConditions |-> <<>>],
   IsFailed |-> TRUE, FailedReason |-> "x",
   Pods |-> [p \in {"p"} |-> [IsFailed |-> TRUE, FailedReason |-> "x"]]]
Snapshots(k) ==
  IF k = "deploy"
  THEN {Progressing("m1")}
  ELSE IF k = "po"
  THEN {[Phase |-> "Running",
         Conditions |-> <<[LastTransitionTime |-> "t", Type |-> "Ready",
                           Status |-> "True", Reason |-> "",
                           Message |-> ""]>>]}
  ELSE IF k = "sts"
  THEN {[Replicas |-> 1, ReadyReplicas |-> 1, CurrentReplicas |-> 1,
         UpdatedReplicas |-> 1, Conditions |-> <<>>]}
  ELSE IF k = "ds"
  THEN {[CurrentNumberScheduled |-> 1, NumberReady |-> 1,
         NumberAvailable |-> 1, NumberUnavailable |-> 0,
         Conditions |-> <<>>]}
  ELSE {[Active |-> 1, Succeeded |-> 0, Failed |-> 0, StartTime |-> "t",
         CompletionTime |-> "", Conditions |-> <<>>]}

\* ---------------------------------------------------------- results ------
NoResult == [returned |-> FALSE, err |-> NilError]
Returned(err) == [returned |-> TRUE, err |-> err]

\* the completion goroutine as a sender on errorChan
Completion == <<"completion", "">>

\* a variant that leaves the kind out of the message
TrackFailedError_NoKind(r, err) == r[2] \o " track failed: " \o err

\* fmt.Errorf("<kind>/%s track failed: %s", spec.ResourceName, err)
TrackFailedError(r, err) == r[1] \o "/" \o r[2] \o " track failed: " \o err

\* ------------------------------------------------------------ Init -------
\* the state of every goroutine and table when Multitrack is called
Called ==
  /\ mainPc = "start"
  /\ result = NoResult
  /\ ticks = 0
  /\ tracking = [k \in KindSet |-> EmptyMap]
  /\ statuses = [k \in KindSet |-> EmptyMap]
  /\ DeploymentsSpecs = EmptyMap
  /\ ShownDeploymentMessages = EmptyMap
  /\ handlerMux = "free"
  /\ wg = 0
  /\ wpc = [r \in Pool |-> "none"]
  /\ exit = [r \in Pool |-> ""]
  /\ failuresReported = [r \in Pool |-> 0]
  /\ errorChan = {}
  /\ doneChan = FALSE
  /\ cpc = "none"
  /\ sink = <<>>

\* StatefulSetComplete is not called in a run of Multitrack
NoStatefulSet == <<>>
NoStatefulSetCall == statefulSet = NoStatefulSet /\ stsComplete = <<>>

Init ==
  /\ \E R \in Runs : \E f \in [R -> RawSettings] :
       /\ Cardinality(R) > 1 =>
            \A r \in R : f[r].AllowFailuresCount \in {<<>>, <<1>>}
       /\ specs = MakeSpecs(R, f)
  /\ Called
  /\ NoStatefulSetCall

\* ----------------------------------------------------- Multitrack --------
\* a variant of the empty check that compares with < instead of ==
NothingToTrack_Negative(sp) ==
  Len(sp["po"]) + Len(sp["deploy"]) + Len(sp["sts"]) + Len(sp["ds"])
  + Len(sp["job"]) < 0

\* len(specs.Pods)+len(specs.Deployments)+...+len(specs.Jobs) == 0
NothingToTrack(sp) ==
  Len(sp["po"]) + Len(sp["deploy"]) + Len(sp["sts"]) + Len(sp["ds"])
  + Len(sp["job"]) = 0

\* the empty check and the five normalisation loops
Start ==
  /\ mainPc = "start"
  /\ IF NothingToTrack(specs)
     THEN /\ mainPc' = "returned"
          /\ result' = Returned(NilError)
          /\ specs' = specs
     ELSE /\ mainPc' = "spawn"
          /\ result' = result
          /\ specs' = [k \in KindSet |->
                         [i \in 1..Len(specs[k]) |->
                            setDefaultSpecValues(specs[k][i])]]
  /\ UNCHANGED <<ticks, tracking, statuses, DeploymentsSpecs,
                 ShownDeploymentMessages, handlerMux, wg, wpc, exit,
                 failuresReported, errorChan, doneChan, cpc, sink>>
  /\ UNCHANGED stsVars

\* the resources not registered yet, in registration order
ToSpawn == SelectSeq(Flat(specs), LAMBDA r : wpc[r] = "none")

\* one round of a registration loop: the state is put in the tracked set,
\* wg.Add(1), and the watcher goroutine is started
RegisterAndSpawn ==
  /\ mainPc = "spawn"
  /\ Len(ToSpawn) > 0
  /\ LET r == Head(ToSpawn)
     IN  /\ tracking' = [tracking EXCEPT
                           ![r[1]] = MapPut(@, r[2], NewResourceState)]
         /\ DeploymentsSpecs' =
              IF r[1] = "deploy"
              THEN MapPut(DeploymentsSpecs, r[2], SpecOf(r))
              ELSE DeploymentsSpecs
         /\ wg' = wg + 1
         /\ wpc' = [wpc EXCEPT ![r] = "watch"]
  /\ UNCHANGED <<specs, mainPc, result, ticks, statuses,
                 ShownDeploymentMessages, handlerMux, exit,
                 failuresReported, errorChan, doneChan, cpc, sink>>
  /\ UNCHANGED stsVars

\* The registration loops write mt.Tracking<Kind> and mt.DeploymentsSpecs
\* without mt.handlerMux. A watcher started by an earlier round may be in
\* a handler that reads or writes the same map at that moment: a data
\* race on a Go map. The accesses can come out in either order (the steps
\* RegisterAndSpawn and the handler steps, in both orders), or the runtime
\* stops the process ("fatal error: concurrent map writes"): Multitrack
\* never returns and every goroutine ends where it is.
RacingHandlers(r) ==
  {q \in Pool : q[1] = r[1] /\ wpc[q] = "handler"}

RegistrationRace ==
  /\ mainPc = "spawn"
  /\ Len(ToSpawn) > 0
  /\ RacingHandlers(Head(ToSpawn)) # {}
  /\ mainPc' = "crashed"
  /\ wpc' = [q \in Pool |->
              IF wpc[q] \in {"watch", "handler", "send"}
              THEN "crashed" ELSE wpc[q]]
  /\ UNCHANGED <<specs, result, ticks, tracking, statuses, DeploymentsSpecs,
                 ShownDeploymentMessages, handlerMux, wg, exit,
                 failuresReported, errorChan, doneChan, cpc, sink>>
  /\ UNCHANGED stsVars

\* go func() { wg.Wait() ... }() and entry into the select loop
SpawnCompletion ==
  /\ mainPc = "spawn"
  /\ Len(ToSpawn) = 0
  /\ cpc' = "wait"
  /\ mainPc' = "select"
  /\ UNCHANGED <<specs, result, ticks, tracking, statuses, DeploymentsSpecs,
                 ShownDeploymentMessages, handlerMux, wg, wpc, exit,
                 failuresReported, errorChan, doneChan, sink>>
  /\ UNCHANGED stsVars

\* a variant of the tick in which the select loop is still served after
\* Multitrack has returned
Tick_AfterReturn ==
  /\ mainPc \in {"select", "returned"}
  /\ ticks < MaxTicks
  /\ ticks' = ticks + 1
  /\ mainPc' = "tickLock"
  /\ UNCHANGED <<specs, result, tracking, statuses, DeploymentsSpecs,
                 ShownDeploymentMessages, handlerMux, wg, wpc, exit,
                 failuresReported, errorChan, doneChan, cpc, sink>>
  /\ UNCHANGED stsVars

\* case <-statusReportTicker.C: the select takes the tick
Tick ==
  /\ mainPc = "select"
  /\ ticks < MaxTicks
  /\ ticks' = ticks + 1
  /\ mainPc' = "tickLock"
  /\ UNCHANGED <<specs, result, tracking, statuses, DeploymentsSpecs,
                 ShownDeploymentMessages, handlerMux, wg, wpc, exit,
                 failuresReported, errorChan, doneChan, cpc, sink>>
  /\ UNCHANGED stsVars

\* mt.handlerMux.Lock() of the tick: Multitrack waits for the lock and
\* serves no channel meanwhile
TickLock ==
  /\ mainPc = "tickLock"
  /\ handlerMux = "free"
  /\ handlerMux' = "main"
  /\ mainPc' = "tickPrint"
  /\ UNCHANGED <<specs, result, ticks, tracking, statuses, DeploymentsSpecs,
                 ShownDeploymentMessages, wg, wpc, exit,
                 failuresReported, errorChan, doneChan, cpc, sink>>
  /\ UNCHANGED stsVars

\* mt.PrintStatusReport() and the deferred Unlock of the tick; the report
\* returns nil, so the loop goes on
TickPrint ==
  /\ mainPc = "tickPrint"
  /\ \E ordS \in IterOrders(statuses) : \E ordT \in IterOrders(tracking) :
       LET rep == PrintStatusReport(statuses, tracking, DeploymentsSpecs,
                                    ShownDeploymentMessages, ordS, ordT)
       IN  /\ sink' = Append(sink, rep.frame)
           /\ ShownDeploymentMessages' = rep.shown
  /\ handlerMux' = "free"
  /\ mainPc' = "select"
  /\ UNCHANGED <<specs, result, ticks, tracking, statuses, DeploymentsSpecs,
                 wg, wpc, exit, failuresReported, errorChan, doneChan, cpc>>
  /\ UNCHANGED stsVars

\* case <-doneChan: return nil
RecvDone ==
  /\ mainPc = "select"
  /\ doneChan
  /\ doneChan' = FALSE
  /\ cpc' = "end"
  /\ mainPc' = "returned"
  /\ result' = Returned(NilError)
  /\ UNCHANGED <<specs, ticks, tracking, statuses, DeploymentsSpecs,
                 ShownDeploymentMessages, handlerMux, wg, wpc, exit,
                 failuresReported, errorChan, sink>>
  /\ UNCHANGED stsVars

\* case err := <-errorChan: return err. The sender goes on: a watcher calls
\* wg.Done(), the completion goroutine returns.
RecvError ==
  /\ mainPc = "select"
  /\ \E m \in errorChan :
       /\ errorChan' = errorChan \ {m}
       /\ result' = Returned(m.err)
       /\ IF m.from = Completion
          THEN /\ cpc' = "end"
               /\ UNCHANGED <<wpc, wg>>
          ELSE /\ wpc' = [wpc EXCEPT ![m.from] = "done"]
               /\ wg' = wg - 1
               /\ cpc' = cpc
  /\ mainPc' = "returned"
  /\ UNCHANGED <<specs, ticks, tracking, statuses, DeploymentsSpecs,
                 ShownDeploymentMessages, handlerMux, exit,
                 failuresReported, doneChan, sink>>
  /\ UNCHANGED stsVars

\* ------------------------------------------------ watcher goroutines -----
\* A watcher goroutine runs mt.Track<Kind>: the adapter's feed calls one
\* handler per event with mt.handlerMux held, stops with a nil error when a
\* handler returns tracker.StopTrack, and returns any other error.

\* mt.handlerMux.Lock() at the head of a handler
WatcherLock(r) ==
  /\ wpc[r] = "watch"
  /\ handlerMux = "free"
  /\ handlerMux' = "watcher"
  /\ wpc' = [wpc EXCEPT ![r] = "handler"]
  /\ UNCHANGED <<specs, mainPc, result, ticks, tracking, statuses,
                 DeploymentsSpecs, ShownDeploymentMessages, wg, exit,
                 failuresReported, errorChan, doneChan, cpc, sink>>
  /\ UNCHANGED stsVars

\* a status snapshot arrives: the entry of the status table is overwritten
OnStatusReport(r, snapshot) ==
  /\ wpc[r] = "handler"
  /\ statuses' = [statuses EXCEPT ![r[1]] = MapPut(@, r[2], snapshot)]
  /\ handlerMux' = "free"
  /\ wpc' = [wpc EXCEPT ![r] = "watch"]
  /\ UNCHANGED <<specs, mainPc, result, ticks, tracking, DeploymentsSpecs,
                 ShownDeploymentMessages, wg, exit, failuresReported,
                 errorChan, doneChan, cpc, sink>>
  /\ UNCHANGED stsVars

\* a failure notification arrives: handleResourceFailure decides; on
\* StopTrack the Track call returns nil and the goroutine calls wg.Done()
OnFailed(r, reason) ==
  /\ wpc[r] = "handler"
  /\ tracking[r[1]][r[2]].FailuresCount < MaxFailures
  /\ failuresReported' =
       [failuresReported EXCEPT ![r] = @ + 1]
  /\ LET res == handleResourceFailure(tracking[r[1]], SpecOf(r), reason)
     IN  /\ tracking' = [tracking EXCEPT ![r[1]] = res.states]
         /\ IF res.ret = StopTrack
            THEN /\ wpc' = [wpc EXCEPT ![r] = "done"]
                 /\ exit' = [exit EXCEPT ![r] = "failure"]
                 /\ wg' = wg - 1
            ELSE /\ wpc' = [wpc EXCEPT ![r] = "watch"]
                 /\ UNCHANGED <<exit, wg>>
  /\ handlerMux' = "free"
  /\ UNCHANGED <<specs, mainPc, result, ticks, statuses, DeploymentsSpecs,
                 ShownDeploymentMessages, errorChan, doneChan, cpc, sink>>
  /\ UNCHANGED stsVars

\* the resource reaches its terminal success condition
OnReady(r) ==
  /\ wpc[r] = "handler"
  /\ LET res == handleResourceReadyCondition(tracking[r[1]], SpecOf(r))
     IN  /\ tracking' = [tracking EXCEPT ![r[1]] = res.states]
         /\ IF res.ret = StopTrack
            THEN /\ wpc' = [wpc EXCEPT ![r] = "done"]
                 /\ exit' = [exit EXCEPT ![r] = "ready"]
                 /\ wg' = wg - 1
            ELSE /\ wpc' = [wpc EXCEPT ![r] = "watch"]
                 /\ UNCHANGED <<exit, wg>>
  /\ handlerMux' = "free"
  /\ UNCHANGED <<specs, mainPc, result, ticks, statuses, DeploymentsSpecs,
                 ShownDeploymentMessages, failuresReported, errorChan,
                 doneChan, cpc, sink>>
  /\ UNCHANGED stsVars

\* the watch ends early: Track returns nil, the goroutine calls wg.Done()
TrackEnded(r) ==
  /\ wpc[r] = "watch"
  /\ wpc' = [wpc EXCEPT ![r] = "done"]
  /\ exit' = [exit EXCEPT ![r] = "ended"]
  /\ wg' = wg - 1
  /\ UNCHANGED <<specs, mainPc, result, ticks, tracking, statuses,
                 DeploymentsSpecs, ShownDeploymentMessages, handlerMux,
                 failuresReported, errorChan, doneChan, cpc, sink>>
  /\ UNCHANGED stsVars

\* Track returns a hard error: the goroutine blocks sending it, wrapped
\* with the kind and the name, on errorChan
TrackError(r, err) ==
  /\ wpc[r] = "watch"
  /\ wpc' = [wpc EXCEPT ![r] = "send"]
  /\ exit' = [exit EXCEPT ![r] = "error"]
  /\ errorChan' =
       errorChan \cup {[from |-> r, err |-> TrackFailedError(r, err)]}
  /\ UNCHANGED <<specs, mainPc, result, ticks, tracking, statuses,
                 DeploymentsSpecs, ShownDeploymentMessages, handlerMux, wg,
                 failuresReported, doneChan, cpc, sink>>
  /\ UNCHANGED stsVars

\* ---------------------------------------------- completion goroutine -----
\* wg.Wait() returns and mt.handlerMux.Lock() is taken
CompletionWait ==
  /\ cpc = "wait"
  /\ wg = 0
  /\ handlerMux = "free"
  /\ handlerMux' = "completion"
  /\ cpc' = "print"
  /\ UNCHANGED <<specs, mainPc, result, ticks, tracking, statuses,
                 DeploymentsSpecs, ShownDeploymentMessages, wg,
                 wpc, exit, failuresReported, errorChan, doneChan, sink>>
  /\ UNCHANGED stsVars

\* a variant of the final report that keeps mt.handlerMux locked while the
\* goroutine goes on to its send
CompletionPrint_KeepsLock ==
  /\ cpc = "print"
  /\ \E ordS \in IterOrders(statuses) : \E ordT \in IterOrders(tracking) :
       LET rep == PrintStatusReport(statuses, tracking, DeploymentsSpecs,
                                    ShownDeploymentMessages, ordS, ordT)
       IN  /\ sink' = Append(sink, rep.frame)
           /\ ShownDeploymentMessages' = rep.shown
  /\ cpc' = "decide"
  /\ UNCHANGED <<specs, mainPc, result, ticks, tracking, statuses,
                 DeploymentsSpecs, handlerMux, wg, wpc, exit,
                 failuresReported, errorChan, doneChan>>
  /\ UNCHANGED stsVars

\* the final mt.PrintStatusReport() and the deferred Unlock
CompletionPrint ==
  /\ cpc = "print"
  /\ \E ordS \in IterOrders(statuses) : \E ordT \in IterOrders(tracking) :
       LET rep == PrintStatusReport(statuses, tracking, DeploymentsSpecs,
                                    ShownDeploymentMessages, ordS, ordT)
       IN  /\ sink' = Append(sink, rep.frame)
           /\ ShownDeploymentMessages' = rep.shown
  /\ handlerMux' = "free"
  /\ cpc' = "decide"
  /\ UNCHANGED <<specs, mainPc, result, ticks, tracking, statuses,
                 DeploymentsSpecs, wg, wpc, exit, failuresReported,
                 errorChan, doneChan>>
  /\ UNCHANGED stsVars

\* the verdict, taken after the lock is released: the goroutine blocks
\* sending the aggregated error on errorChan, or the signal on doneChan
CompletionDecide ==
  /\ cpc = "decide"
  /\ IF hasFailedTrackingResources(tracking)
     THEN /\ \E ord \in IterOrders(tracking) :
               errorChan' =
                 errorChan \cup
                   {[from |-> Completion,
                     err |-> formatFailedTrackingResourcesError(tracking,
                                                                ord)]}
          /\ doneChan' = doneChan
     ELSE /\ doneChan' = TRUE
          /\ errorChan' = errorChan
  /\ cpc' = "send"
  /\ UNCHANGED <<specs, mainPc, result, ticks, tracking, statuses,
                 DeploymentsSpecs, ShownDeploymentMessages, handlerMux, wg,
                 wpc, exit, failuresReported, sink>>
  /\ UNCHANGED stsVars

\* ------------------------------------------------------------ Next -------
Next ==
  \/ Start
  \/ RegisterAndSpawn
  \/ RegistrationRace
  \/ SpawnCompletion
  \/ Tick
  \/ TickLock
  \/ TickPrint
  \/ RecvDone
  \/ RecvError
  \/ \E r \in Pool : WatcherLock(r)
  \/ \E r \in Pool : \E snapshot \in Snapshots(r[1]) :
       OnStatusReport(r, snapshot)
  \/ \E r \in Pool : \E reason \in Reasons : OnFailed(r, reason)
  \/ \E r \in Pool : OnReady(r)
  \/ \E r \in Pool : TrackEnded(r)
  \/ \E r \in Pool : \E err \in TrackErrors : TrackError(r, err)
  \/ CompletionWait
  \/ CompletionPrint
  \/ CompletionDecide

Spec == Init /\ [][Next]_vars

\* ------------------------------------------- runs of one deployment ------
\* The report of a deployment depends on the conditions of its snapshots:
\* these runs watch one deployment whose feed delivers snapshots with
\* satisfied and unsatisfied conditions, repeated and shared message texts,
\* and a failed rollout.
Cond(msg, sat) == [Message |-> msg, IsSatisfied |-> sat]
ProgressingLists ==
  {<<Cond("m1", TRUE)>>, <<Cond("m1", TRUE), Cond("m2", TRUE)>>,
   <<Cond("m2", FALSE)>>, <<Cond("m1", TRUE), Cond("m1", TRUE)>>}
ReadyLists ==
  {<<Cond("up", FALSE)>>, <<Cond("up", TRUE)>>, <<Cond("m1", TRUE)>>}
Messages == {"m1", "m2", "up"}
DeploymentSnapshots ==
  {[ReadyStatus |->
      [IsReady |-> \A i \in 1..Len(rc) : rc[i].IsSatisfied,
       ProgressingConditions |-> pc, ReadyConditions |-> rc],
    IsFailed |-> FALSE, FailedReason |-> "", Pods |-> EmptyMap]
     : pc \in ProgressingLists, rc \in ReadyLists}
  \cup
  {[ReadyStatus |->
      [IsReady |-> FALSE,
       ProgressingConditions |-> <<Cond("m2", TRUE)>>,
       ReadyConditions |-> <<Cond("up", TRUE)>>],
    IsFailed |-> TRUE, FailedReason |-> "x",
    Pods |-> [p \in {"p"} |-> [IsFailed |-> TRUE, FailedReason |-> "x"]]]}

RenderInit ==
  /\ \E f \in [{<<"deploy", "a">>} -> RawSettings] :
       /\ f[<<"deploy", "a">>].AllowFailuresCount = <<>>
       /\ specs = MakeSpecs({<<"deploy", "a">>}, f)
  /\ Called
  /\ NoStatefulSetCall

RenderNext ==
  \/ Start
  \/ RegisterAndSpawn
  \/ SpawnCompletion
  \/ Tick
  \/ TickLock
  \/ TickPrint
  \/ RecvDone
  \/ RecvError
  \/ \E r \in Pool : WatcherLock(r)
  \/ \E r \in Pool : \E snapshot \in DeploymentSnapshots :
       OnStatusReport(r, snapshot)
  \/ \E r \in Pool : \E reason \in Reasons : OnFailed(r, reason)
  \/ \E r \in Pool : OnReady(r)
  \/ \E r \in Pool : TrackEnded(r)
  \/ \E r \in Pool : \E err \in TrackErrors : TrackError(r, err)
  \/ CompletionWait
  \/ CompletionPrint
  \/ CompletionDecide

RenderSpec == RenderInit /\ [][RenderNext]_vars

\* ------------------------------------------------- derived notions -------
\* r has been given to Multitrack, and its spec has been normalised
Normalised == mainPc # "start"
\* the state of r is in the tracked set of its kind
Tracked(r) == r[2] \in DOMAIN tracking[r[1]]
StateOf(r) == tracking[r[1]][r[2]]
MarkedFailed(r) == Tracked(r) /\ StateOf(r).IsFailed
FailModeOf(r) == SpecOf(r).FailMode
AllowedOf(r) == SpecOf(r).AllowFailuresCount[1]
\* the watcher goroutine of r has not finished
Running(r) == wpc[r] \in {"watch", "handler", "send"}
AllWatchersFinished == \A r \in Resources : wpc[r] = "done"
\* some watcher's Track call has returned a hard error
AnyHardError == \E r \in Resources : exit[r] = "error"
\* r has a line in the frame
InFrame(frame, r) ==
  \E i \in 1..Len(frame) : frame[i].kind = r[1] /\ frame[i].name = r[2]
\* a frame has been written in this step
FrameWritten == Len(sink') = Len(sink) + 1
\* the feed of r delivers a failure notification in this step
FailureNotified(r) == failuresReported'[r] = failuresReported[r] + 1

\* the texts "<kind>/<name> failed: <reason>", one per line, that list
\* exactly the resources S, in any order, with the reasons g
TextsListing(S, G) ==
  {Join([i \in 1..Len(o) |->
           o[i][1] \o "/" \o o[i][2] \o " failed: " \o g[o[i]]], "\n") :
     o \in Orders(S), g \in G}
\* the text lists r, with whatever reason
Lists(text, r) ==
  \E S \in SUBSET Resources :
    r \in S /\ text \in TextsListing(S, [S -> Reasons \cup {""}])
\* the texts that list exactly the resources now tracked and marked failed,
\* each with its LastFailureReason
ExpectedTexts ==
  LET S == {r \in Resources : MarkedFailed(r)}
  IN  TextsListing(S, {[r \in S |-> StateOf(r).LastFailureReason]})

\* the verdict of the completion goroutine, once it has decided: what it is
\* sending, or what Multitrack received from it
Decided == cpc \in {"send", "end"}
Verdict ==
  IF cpc = "end" THEN result.err
  ELSE IF doneChan THEN NilError
  ELSE (CHOOSE m \in errorChan : m.from = Completion).err

\* a step of Multitrack or of the completion goroutine: a step that needs
\* no further watcher event
OrchestratorStep ==
  Start \/ RegisterAndSpawn \/ SpawnCompletion \/ Tick \/ TickPrint
  \/ RecvDone \/ RecvError \/ CompletionWait \/ CompletionPrint
  \/ CompletionDecide

\* ------------------------------------------------------------ claims -----
\* C1 (as claimed): once a FailWholeDeployProcessImmediately resource has
\* been marked failed, the run ends with the aggregated error without any
\* further watcher event: when Multitrack and the completion goroutine can
\* take no step, Multitrack has returned an error listing the resource.
C1_FailImmediatelyEndsRun ==
  \A r \in Resources :
    (/\ Normalised
     /\ FailModeOf(r) = FailWholeDeployProcessImmediately
     /\ MarkedFailed(r)
     /\ ~ENABLED OrchestratorStep)
    => (result.returned /\ Lists(result.err, r))

\* C2: Multitrack returns success only after every watcher has finished, the
\* final frame has been written and no tracked resource is marked failed;
\* and when no watcher returned a hard error, what Multitrack returns is the
\* verdict of the completion goroutine: nil when no tracked resource is
\* marked failed, else the aggregated error of the failed ones.
C2_CompletionVerdict ==
  /\ (result.returned /\ result.err = NilError /\ Resources # {})
       => (/\ AllWatchersFinished
           /\ cpc = "end"
           /\ Len(sink) >= 1
           /\ ~hasFailedTrackingResources(tracking))
  /\ Decided => (AllWatchersFinished /\ Len(sink) >= 1)
  /\ (result.returned /\ ~AnyHardError /\ Resources # {})
       => (/\ cpc = "end"
           /\ AllWatchersFinished
           /\ (\E r \in Resources : MarkedFailed(r))
                => result.err \in ExpectedTexts
           /\ (~\E r \in Resources : MarkedFailed(r))
                => result.err = NilError)

\* a run of two resources that ends with the aggregated error although one
\* of them became ready
C2_Witness ==
  /\ result.returned
  /\ cpc = "end"
  /\ result.err # NilError
  /\ \E r \in Resources : exit[r] = "ready"
  /\ \E r \in Resources : MarkedFailed(r)

\* C3: the error Multitrack returns when it receives from a watcher is
\* "<kind>/<name> track failed: <err>" for the hard error of that watcher,
\* and a watcher's send is received as soon as Multitrack is in its select:
\* it waits for no other watcher and no failed flag.
C3_HardErrorEndsRun ==
  /\ [][\A r \in Pool :
          (wpc[r] = "send" /\ wpc'[r] = "done")
          => (/\ mainPc = "select" /\ mainPc' = "returned"
              /\ exit[r] = "error"
              /\ \E err \in TrackErrors :
                   result' =
                     Returned(r[1] \o "/" \o r[2] \o " track failed: "
                              \o err))]_vars
  /\ [](\A r \in Pool :
          (wpc[r] = "send" /\ mainPc = "select") => ENABLED RecvError)
  /\ [](\A r \in Pool : exit[r] = "error" => wpc[r] \in {"send", "done"})

\* Multitrack has returned the hard error of po/a while another watcher is
\* still running and the other resource is marked failed
C3_Witness ==
  /\ result = Returned("po/a track failed: e")
  /\ \E r \in Resources : wpc[r] = "watch" /\ MarkedFailed(r)
  /\ cpc = "wait"

\* r was dismissed: IgnoreAndContinueDeployProcess, stopped by a failure
Dismissed(r) ==
  /\ r \in Resources
  /\ Normalised
  /\ FailModeOf(r) = IgnoreAndContinueDeployProcess
  /\ exit[r] = "failure"

\* C4: the failure notification that exceeds the tolerance of an
\* IgnoreAndContinueDeployProcess resource removes its state and stops its
\* watcher; from then on it is never tracked, the verdict never lists it,
\* and a failure verdict always rests on another resource.
C4_IgnoredNeverCounts ==
  /\ [][\A r \in Resources :
          (/\ FailModeOf(r) = IgnoreAndContinueDeployProcess
           /\ FailureNotified(r)
           /\ failuresReported'[r] > AllowedOf(r))
          => (~Tracked(r)' /\ wpc'[r] = "done" /\ exit'[r] = "failure")]_vars
  /\ [](\A r \in Resources :
          Dismissed(r)
          => (/\ ~Tracked(r)
              /\ wpc[r] = "done"
              /\ Decided /\ Verdict # NilError
                   => (/\ ~Lists(Verdict, r)
                       /\ \E o \in Resources : o # r /\ MarkedFailed(o))))

\* a dismissed resource next to a failure verdict about the other one
C4_Witness ==
  /\ \E r \in Resources : Dismissed(r)
  /\ cpc = "end"
  /\ result.err # NilError

\* the last frame written
LastFrame == sink[Len(sink)]
\* C5: a resource dismissed under IgnoreAndContinueDeployProcess is in no
\* frame written afterwards, also when a status snapshot was recorded for it.
C5_DismissedAbsentFromFrames ==
  [][\A r \in Resources :
       (Dismissed(r) /\ FrameWritten) => ~InFrame(LastFrame', r)]_vars

\* C6: a failure beyond tolerance of a HopeUntilEndOfDeployProcess resource
\* marks it failed with the reason and changes nothing else: its watcher
\* goes on and Multitrack stays where it is. While its watcher runs the
\* resource is tracked and in every frame written; the verdict lists it
\* exactly when it is still marked failed, and is then a failure.
C6_HopeUntilEndLatches ==
  /\ [][\A r \in Resources : \A reason \in Reasons :
          (/\ FailModeOf(r) = HopeUntilEndOfDeployProcess
           /\ OnFailed(r, reason)
           /\ failuresReported'[r] > AllowedOf(r))
          => (/\ MarkedFailed(r)'
              /\ StateOf(r)'.LastFailureReason = reason
              /\ wpc'[r] = "watch"
              /\ UNCHANGED <<exit, wg, mainPc, result, cpc, errorChan,
                             doneChan>>)]_vars
  /\ [][\A r \in Resources :
          (/\ FailModeOf(r) = HopeUntilEndOfDeployProcess
           /\ wpc[r] \in {"watch", "handler"}
           /\ FrameWritten)
          => (Tracked(r) /\ InFrame(LastFrame', r))]_vars
  /\ [](\A r \in Resources :
          (Normalised /\ FailModeOf(r) = HopeUntilEndOfDeployProcess
           /\ Decided)
          => (/\ MarkedFailed(r) <=> (Verdict # NilError
                                      /\ Lists(Verdict, r))
              /\ Cardinality(Resources) = 1
                   => (MarkedFailed(r) <=> Verdict # NilError)))

\* a latched resource whose watcher ended while it was marked failed, in a
\* frame and in the failure Multitrack returned
C6_Witness ==
  /\ cpc = "end"
  /\ \E r \in Resources :
       /\ FailModeOf(r) = HopeUntilEndOfDeployProcess
       /\ MarkedFailed(r)
       /\ exit[r] = "ended"
       /\ InFrame(LastFrame, r)
       /\ Lists(result.err, r)

\* C7: a resource whose watcher was stopped by its ready condition is not
\* tracked, whatever its fail mode and its failures before, and no verdict
\* lists it.
C7_ReadyAlwaysRemoves ==
  \A r \in Resources :
    exit[r] = "ready"
    => (/\ ~Tracked(r)
        /\ wpc[r] = "done"
        /\ (Decided /\ Verdict # NilError) => ~Lists(Verdict, r))

\* a resource that was marked failed became ready, and the run succeeded
C7_Witness ==
  /\ result = Returned(NilError)
  /\ \E r \in Resources :
       /\ exit[r] = "ready"
       /\ FailModeOf(r) = HopeUntilEndOfDeployProcess
       /\ failuresReported[r] > AllowedOf(r)

\* C8: the FailuresCount of a tracked resource is the number of failure
\* notifications delivered for it; it never decreases, a notification adds
\* exactly 1, and notifications are only counted for tracked resources.
C8_FailuresCounted ==
  /\ [](\A r \in Resources :
          Tracked(r) => StateOf(r).FailuresCount = failuresReported[r])
  /\ [][\A r \in Resources :
          /\ (Tracked(r) /\ Tracked(r)')
               => (StateOf(r)'.FailuresCount - StateOf(r).FailuresCount)
                    \in {0, 1}
          /\ FailureNotified(r)
               => (/\ Tracked(r)
                   /\ Tracked(r)'
                        => StateOf(r)'.FailuresCount
                             = StateOf(r).FailuresCount + 1)]_vars

\* two notifications counted for a resource that is still tracked
C8_Witness ==
  \E r \in Resources :
    Tracked(r) /\ StateOf(r).FailuresCount = 2 /\ wpc[r] = "watch"

\* C9: a failure notification within tolerance changes FailuresCount of
\* its resource and nothing else; the watcher goes on; and a failure
\* verdict needs a notification beyond tolerance.
C9_AbsorbedFailure ==
  /\ [][\A r \in Resources :
          (FailureNotified(r) /\ failuresReported'[r] <= AllowedOf(r))
          => (/\ tracking' =
                   [tracking EXCEPT ![r[1]][r[2]].FailuresCount = @ + 1]
              /\ wpc'[r] = "watch"
              /\ UNCHANGED <<specs, mainPc, result, ticks, statuses,
                             DeploymentsSpecs, ShownDeploymentMessages,
                             wg, exit, errorChan, doneChan, cpc,
                             sink>>)]_vars
  /\ [](Decided /\ Verdict # NilError
          => \E r \in Resources : failuresReported[r] > AllowedOf(r))

\* one failure absorbed with the default tolerance of 1, in a run of two
C9_Witness ==
  /\ mainPc = "select"
  /\ Cardinality(Resources) = 2
  /\ \E r \in Resources :
       /\ AllowedOf(r) = 1
       /\ Tracked(r)
       /\ StateOf(r) = [NewResourceState EXCEPT !.FailuresCount = 1]
       /\ wpc[r] = "watch"

\* C10: a failure verdict is the lines "<kind>/<name> failed: <reason>" of
\* exactly the resources tracked and marked failed, once each, joined by
\* newlines; and the reason of a marked resource is the reason of its last
\* failure notification beyond tolerance.
C10_AggregatedErrorExact ==
  /\ []((Decided /\ Verdict # NilError) => Verdict \in ExpectedTexts)
  /\ [][\A r \in Resources :
          /\ \A reason \in Reasons :
               (OnFailed(r, reason) /\ MarkedFailed(r)')
               => StateOf(r)'.LastFailureReason = reason
          /\ (/\ Tracked(r) /\ Tracked(r)'
              /\ StateOf(r)'.LastFailureReason
                   # StateOf(r).LastFailureReason)
               => (FailureNotified(r)
                   /\ failuresReported'[r] > AllowedOf(r))]_vars

\* two resources of different fail modes, both in the returned error
C10_Witness ==
  /\ cpc = "end"
  /\ result.err = "po/a failed: x\ndeploy/a failed: y"
  /\ FailModeOf(<<"po", "a">>) # FailModeOf(<<"deploy", "a">>)

\* C11: with no resource in specs, Multitrack returns nil at its first step:
\* no watcher and no completion goroutine is started, the ticker is never
\* read and no frame is written.
C11_EmptyRunReturnsAtOnce ==
  /\ [](Resources = {}
          => (/\ mainPc \in {"start", "returned"}
              /\ mainPc = "returned" => result = Returned(NilError)
              /\ \A r \in Pool : wpc[r] = "none"
              /\ wg = 0 /\ cpc = "none" /\ ticks = 0 /\ sink = <<>>
              /\ tracking = [k \in KindSet |-> EmptyMap]))
  /\ [][(Resources = {} /\ mainPc = "start")
          => (mainPc' = "returned" /\ result' = Returned(NilError))]_vars

\* the empty run has returned nil
C11_Witness ==
  Resources = {} /\ result = Returned(NilError) /\ mainPc = "returned"

\* ----------------------------------------------- message deduplication ---
\* the deployments given to Multitrack
Deployments == {r \in Resources : r[1] = "deploy"}
\* the snapshot of deployment r in the status table
StatusOf(r) == statuses[r[1]][r[2]]
\* the messages already shown for deployment r
ShownFor(r) ==
  IF r[2] \in DOMAIN ShownDeploymentMessages
  THEN ShownDeploymentMessages[r[2]] ELSE {}
\* the lines of a frame, of one of the types ts, that show message m for r
LinesShowing(frame, r, ts, m) ==
  {i \in 1..Len(frame) :
     /\ frame[i].kind = r[1] /\ frame[i].name = r[2]
     /\ frame[i].t \in ts /\ frame[i].text = m}
\* how many lines of all frames written so far show m for r
TimesShown(r, ts, m) ==
  Cardinality(UNION {{<<j, i>> : i \in LinesShowing(sink[j], r, ts, m)}
                       : j \in 1..Len(sink)})
\* the three line types that carry condition messages
ConditionLineTypes == {"progress", "ready", "unready"}
\* the messages of the satisfied conditions of a list
SatisfiedMsgs(conds) ==
  {conds[i].Message : i \in {j \in 1..Len(conds) : conds[j].IsSatisfied}}
\* mt.ShownDeploymentMessages only grows
ShownOnlyGrows ==
  \A name \in DOMAIN ShownDeploymentMessages :
    /\ name \in DOMAIN ShownDeploymentMessages'
    /\ ShownDeploymentMessages[name] \subseteq ShownDeploymentMessages'[name]

\* C12: over all frames of a run, every message text of a progressing or
\* ready condition of a deployment is rendered at most once, and the shown
\* set only grows.
C12_EveryMessageOnce ==
  /\ [](\A r \in Deployments : \A m \in Messages :
          TimesShown(r, ConditionLineTypes, m) <= 1)
  /\ [][ShownOnlyGrows]_vars

\* C12 (amended): over all frames of a run, every message text of a
\* satisfied progressing or ready condition of a deployment gets at most one
\* line, exactly one once it is in the shown set; the shown set only grows;
\* the line joining the messages of the unsatisfied ready conditions is not
\* deduplicated: it is in every frame written while the snapshot, not
\* failed, has such conditions.
C12_SatisfiedMessageOnce ==
  /\ [](\A r \in Deployments : \A m \in Messages :
          /\ TimesShown(r, {"progress", "ready"}, m) <= 1
          /\ TimesShown(r, {"progress", "ready"}, m) = 1
               <=> m \in ShownFor(r))
  /\ [][ShownOnlyGrows]_vars
  /\ [][\A r \in Deployments :
          (/\ FrameWritten
           /\ r[2] \in DOMAIN statuses["deploy"]
           /\ ~StatusOf(r).IsFailed
           /\ UnreadyMsgs(StatusOf(r).ReadyStatus.ReadyConditions) # <<>>)
          => LinesShowing(LastFrame', r, {"unready"},
               Join(UnreadyMsgs(StatusOf(r).ReadyStatus.ReadyConditions),
                    ", ")) # {}]_vars

\* two frames rendered from snapshots with the same satisfied message: the
\* first shows it, the final one does not
C12_Witness ==
  /\ cpc = "decide"
  /\ Len(sink) = 2
  /\ \E r \in Deployments :
       /\ r[2] \in DOMAIN statuses["deploy"]
       /\ ~StatusOf(r).IsFailed
       /\ "m1" \in SatisfiedMsgs(StatusOf(r).ReadyStatus.ProgressingConditions)
       /\ LinesShowing(sink[1], r, {"progress"}, "m1") # {}
       /\ LinesShowing(sink[2], r, {"progress", "ready"}, "m1") = {}
       /\ LinesShowing(sink[1], r, {"unready"}, "up") # {}
       /\ LinesShowing(sink[2], r, {"unready"}, "up") # {}

\* the message texts of r rendered in the frames written so far
RenderedBefore(r) ==
  {m \in Messages : TimesShown(r, ConditionLineTypes, m) > 0}
\* the messages of all conditions of a list
AllMsgs(conds) == {conds[i].Message : i \in 1..Len(conds)}

\* C13: the same progressing message in two consecutive frames gives one
\* "progress" line in total, and a progressing message that differs from the
\* texts rendered before gives a line in the next frame.
C13_NewMessageNewLine ==
  /\ [](\A r \in Deployments : \A m \in Messages :
          \A j \in 1..(Len(sink) - 1) :
            Cardinality(LinesShowing(sink[j], r, {"progress"}, m))
            + Cardinality(LinesShowing(sink[j + 1], r, {"progress"}, m))
              <= 1)
  /\ [][\A r \in Deployments :
          (FrameWritten /\ r[2] \in DOMAIN statuses["deploy"])
          => \A m \in AllMsgs(StatusOf(r).ReadyStatus.ProgressingConditions)
                      \ RenderedBefore(r) :
               LinesShowing(LastFrame', r, {"progress"}, m) # {}]_vars

\* C13 (amended): the same progressing message in two consecutive frames
\* gives one "progress" line in total, and the next frame has exactly one
\* "progress" line for each message of a satisfied progressing condition
\* that is not in the shown set, provided the snapshot is not failed; it
\* has no other "progress" line.
C13_NewSatisfiedMessageNewLine ==
  /\ [](\A r \in Deployments : \A m \in Messages :
          \A j \in 1..(Len(sink) - 1) :
            Cardinality(LinesShowing(sink[j], r, {"progress"}, m))
            + Cardinality(LinesShowing(sink[j + 1], r, {"progress"}, m))
              <= 1)
  /\ [][\A r \in Deployments :
          (FrameWritten /\ r[2] \in DOMAIN statuses["deploy"])
          => \A m \in Messages :
               Cardinality(LinesShowing(LastFrame', r, {"progress"}, m))
               = IF /\ ~StatusOf(r).IsFailed
                    /\ m \in SatisfiedMsgs(
                               StatusOf(r).ReadyStatus.ProgressingConditions)
                    /\ m \notin ShownFor(r)
                 THEN 1 ELSE 0]_vars

\* the final frame, rendered from a snapshot with m1 and m2 satisfied, shows
\* m2, which is new, and not m1, which the frame before showed
C13_Witness ==
  /\ cpc = "decide"
  /\ Len(sink) = 2
  /\ \E r \in Deployments :
       /\ r[2] \in DOMAIN statuses["deploy"]
       /\ SatisfiedMsgs(StatusOf(r).ReadyStatus.ProgressingConditions)
            = {"m1", "m2"}
       /\ LinesShowing(sink[1], r, {"progress"}, "m1") # {}
       /\ LinesShowing(sink[2], r, {"progress"}, "m1") = {}
       /\ LinesShowing(sink[2], r, {"progress"}, "m2") # {}

\* ------------------------------------------------ spec normalisation -----
\* every MultitrackSpec a caller may build: "" and <<>> are absent fields
RawSpecs ==
  [ResourceName : {"a"},
   Namespace : {"ns"},
   FailMode : {""} \cup FailModes,
   AllowFailuresCount : {<<>>} \cup {<<n>> : n \in 0..MaxAllowed},
   FailureThresholdSeconds : {<<>>} \cup {<<n>> : n \in 0..MaxThreshold},
   ShowLogsUntil : {"", ControllerIsReady, PodIsReady, EndOfDeploy}]

\* Multitrack called with no spec, or with one raw spec of one kind
NormInit ==
  /\ \/ specs = [k \in KindSet |-> <<>>]
     \/ \E kind \in KindSet : \E raw \in RawSpecs :
          specs = [k \in KindSet |-> IF k = kind THEN <<raw>> ELSE <<>>]
  /\ Called
  /\ NoStatefulSetCall

\* the normalisation loops at the head of Multitrack
NormNext == Start

NormSpec == NormInit /\ [][NormNext]_vars

\* C14: setDefaultSpecValues sets FailMode, AllowFailuresCount,
\* FailureThresholdSeconds and ShowLogsUntil to
\* FailWholeDeployProcessImmediately, 1, 0 and PodIsReady exactly where the
\* field is absent, keeps every given field (an AllowFailuresCount of 0
\* too) and the other fields, and applied again changes nothing.
C14_DefaultsOnlyForAbsent ==
  [][\A k \in KindSet : \A i \in 1..Len(specs[k]) :
       LET raw == specs[k][i]
           out == specs'[k][i]
       IN  (mainPc = "start" /\ mainPc' = "spawn")
           => (/\ Len(specs'[k]) = Len(specs[k])
               /\ (raw.FailMode = ""
                     => out.FailMode = FailWholeDeployProcessImmediately)
               /\ (raw.FailMode # "" => out.FailMode = raw.FailMode)
               /\ (raw.AllowFailuresCount = <<>>
                     => out.AllowFailuresCount = <<1>>)
               /\ (raw.AllowFailuresCount # <<>>
                     => out.AllowFailuresCount = raw.AllowFailuresCount)
               /\ (raw.FailureThresholdSeconds = <<>>
                     => out.FailureThresholdSeconds = <<0>>)
               /\ (raw.FailureThresholdSeconds # <<>>
                     => out.FailureThresholdSeconds
                          = raw.FailureThresholdSeconds)
               /\ (raw.ShowLogsUntil = ""
                     => out.ShowLogsUntil = PodIsReady)
               /\ (raw.ShowLogsUntil # ""
                     => out.ShowLogsUntil = raw.ShowLogsUntil)
               /\ out.ResourceName = raw.ResourceName
               /\ out.Namespace = raw.Namespace
               /\ setDefaultSpecValues(out) = out)]_vars

\* a normalised spec that kept its AllowFailuresCount of 0 next to defaults
C14_Witness ==
  /\ mainPc = "spawn"
  /\ \E k \in KindSet : \E i \in 1..Len(specs[k]) :
       /\ specs[k][i].AllowFailuresCount = <<0>>
       /\ specs[k][i].FailMode = HopeUntilEndOfDeployProcess
       /\ specs[k][i].FailureThresholdSeconds = <<0>>
       /\ specs[k][i].ShowLogsUntil = PodIsReady

\* ------------------------------------------------ StatefulSetComplete ----
\* appsv1.RollingUpdateStatefulSetStrategyType, OnDeleteStatefulSetStrategyType
RollingUpdateStatefulSetStrategyType == "RollingUpdate"
OnDeleteStatefulSetStrategyType == "OnDelete"
\* a strategy type this code does not know
UnknownStrategyType == "Surge"
StrategyTypes ==
  {RollingUpdateStatefulSetStrategyType, OnDeleteStatefulSetStrategyType,
   UnknownStrategyType}

\* the *int32 and *RollingUpdateStatefulSetStrategy values: <<>> is nil
Counts == 0..MaxReplicas
OptCounts == {<<>>} \cup {<<n>> : n \in Counts}
RollingUpdates == {<<>>} \cup {<<[Partition |-> p]>> : p \in OptCounts}
\* Generation and Status.ObservedGeneration: not yet observed, current,
\* behind and ahead
GenerationPairs == {<<1, 0>>, <<1, 1>>, <<2, 1>>, <<1, 2>>}
Revisions == {"v1", "v2"}

\* the stateful sets StatefulSetComplete is called with
StatefulSets ==
  {[Generation |-> g[1],
    Spec |-> [Replicas |-> d,
              UpdateStrategy |-> [Type |-> ty, RollingUpdate |-> ru]],
    Status |-> [ObservedGeneration |-> g[2],
                Replicas |-> c[1], ReadyReplicas |-> c[2],
                CurrentReplicas |-> c[3], UpdatedReplicas |-> c[4],
                CurrentRevision |-> "v1", UpdateRevision |-> rev]]
     : g \in GenerationPairs, d \in OptCounts, ty \in StrategyTypes,
       ru \in RollingUpdates, c \in Counts \X Counts \X Counts \X Counts,
       rev \in Revisions}

\* StatefulSetComplete with some of its decisions changed: whether only an
\* ObservedGeneration of 0 counts as stale, whether updated == current is
\* accepted without a partition, whether the partition is subtracted from
\* the desired replicas, and what an unknown strategy gives
StatefulSetCompleteVariant(s, onlyZeroIsStale, acceptUpdatedIsCurrent, subtractPartition, unknownGives) ==
  LET desired == s.Spec.Replicas
      strategy == s.Spec.UpdateStrategy
      status == s.Status
      partition ==
        IF /\ strategy.RollingUpdate # <<>>
           /\ desired # <<>>
           /\ strategy.RollingUpdate[1].Partition # <<>>
        THEN strategy.RollingUpdate[1].Partition[1]
        ELSE 0
  IN  IF \/ status.ObservedGeneration = 0
         \/ (~onlyZeroIsStale /\ s.Generation # status.ObservedGeneration)
      THEN FALSE
      ELSE IF /\ desired # <<>>
              /\ (desired[1] # status.Replicas
                  \/ desired[1] # status.ReadyReplicas)
      THEN FALSE
      ELSE IF strategy.Type = OnDeleteStatefulSetStrategyType
      THEN TRUE
      ELSE IF strategy.Type = RollingUpdateStatefulSetStrategyType
      THEN IF partition = 0
           THEN IF status.UpdateRevision # status.CurrentRevision
                THEN FALSE
                ELSE /\ status.CurrentReplicas = status.ReadyReplicas
                     /\ \/ status.UpdatedReplicas = 0
                        \/ (acceptUpdatedIsCurrent
                            /\ status.UpdatedReplicas
                                 = status.CurrentReplicas)
           ELSE IF status.UpdateRevision = status.CurrentRevision
                THEN FALSE
                ELSE /\ status.CurrentReplicas = partition
                     /\ status.UpdatedReplicas
                          = (IF subtractPartition
                             THEN desired[1] - partition
                             ELSE desired[1])
      ELSE unknownGives

\* only an ObservedGeneration of 0 is taken for stale
StatefulSetComplete_OnlyZeroIsStale(s) ==
  StatefulSetCompleteVariant(s, TRUE, TRUE, TRUE, TRUE)
\* without a partition only updated == 0 is accepted
StatefulSetComplete_OnlyUpdatedZero(s) ==
  StatefulSetCompleteVariant(s, FALSE, FALSE, TRUE, TRUE)
\* with a partition all desired replicas must be updated
StatefulSetComplete_AllUpdated(s) ==
  StatefulSetCompleteVariant(s, FALSE, TRUE, FALSE, TRUE)
\* an unknown strategy is never complete
StatefulSetComplete_UnknownNever(s) ==
  StatefulSetCompleteVariant(s, FALSE, TRUE, TRUE, FALSE)

StatefulSetComplete(s) ==
  LET desired == s.Spec.Replicas
      strategy == s.Spec.UpdateStrategy
      status == s.Status
      partition ==
        IF /\ strategy.RollingUpdate # <<>>
           /\ desired # <<>>
           /\ strategy.RollingUpdate[1].Partition # <<>>
        THEN strategy.RollingUpdate[1].Partition[1]
        ELSE 0
  IN  IF \/ status.ObservedGeneration = 0
         \/ s.Generation # status.ObservedGeneration
      THEN FALSE
      ELSE IF /\ desired # <<>>
              /\ (desired[1] # status.Replicas
                  \/ desired[1] # status.ReadyReplicas)
      THEN FALSE
      ELSE IF strategy.Type = OnDeleteStatefulSetStrategyType
      THEN TRUE
      ELSE IF strategy.Type = RollingUpdateStatefulSetStrategyType
      THEN IF partition = 0
           THEN IF status.UpdateRevision # status.CurrentRevision
                THEN FALSE
                ELSE /\ status.CurrentReplicas = status.ReadyReplicas
                     /\ \/ status.UpdatedReplicas = 0
                        \/ status.UpdatedReplicas = status.CurrentReplicas
           ELSE IF status.UpdateRevision = status.CurrentRevision
                THEN FALSE
                ELSE /\ status.CurrentReplicas = partition
                     /\ status.UpdatedReplicas = desired[1] - partition
      ELSE TRUE

\* a caller holds a stateful set and has not asked yet
StsInit ==
  /\ specs = [k \in KindSet |-> <<>>]
  /\ Called
  /\ statefulSet \in StatefulSets
  /\ stsComplete = <<>>

\* the call of StatefulSetComplete
CallStatefulSetComplete ==
  /\ stsComplete = <<>>
  /\ stsComplete' = <<StatefulSetComplete(statefulSet)>>
  /\ UNCHANGED <<specs, mainPc, result, ticks, tracking, statuses,
                 DeploymentsSpecs, ShownDeploymentMessages, handlerMux, wg,
                 wpc, exit, failuresReported, errorChan, doneChan, cpc,
                 sink, statefulSet>>

StsNext == CallStatefulSetComplete

StsSpec == StsInit /\ [][StsNext]_vars

\* StatefulSetComplete has returned
Answered == stsComplete # <<>>
\* the value it returned
Complete == stsComplete[1]
\* the observed generation is stale: zero, or behind the generation
GenerationStale ==
  \/ statefulSet.Status.ObservedGeneration = 0
  \/ statefulSet.Status.ObservedGeneration < statefulSet.Generation
\* the observed generation is the generation of the spec
GenerationCurrent ==
  /\ statefulSet.Status.ObservedGeneration # 0
  /\ statefulSet.Status.ObservedGeneration = statefulSet.Generation
\* the partition given with the strategy, 0 if none is given
PartitionGiven ==
  LET ru == statefulSet.Spec.UpdateStrategy.RollingUpdate
  IN  IF ru # <<>> /\ ru[1].Partition # <<>> THEN ru[1].Partition[1]
      ELSE 0
\* desired == observed == ready, where the desired replicas are given
DesiredObservedReady ==
  statefulSet.Spec.Replicas # <<>>
  => (/\ statefulSet.Spec.Replicas[1] = statefulSet.Status.Replicas
      /\ statefulSet.Spec.Replicas[1] = statefulSet.Status.ReadyReplicas)

\* C15: with a stale generation (ObservedGeneration 0, or less than
\* Generation) StatefulSetComplete returns false, whatever the strategy,
\* the partition, the replica counts and the revisions.
C15_StaleGenerationNotComplete ==
  (Answered /\ GenerationStale) => ~Complete

\* an unknown strategy, every count as desired, the generation behind: false
C15_Witness ==
  /\ Answered /\ ~Complete
  /\ statefulSet.Generation = 2 /\ statefulSet.Status.ObservedGeneration = 1
  /\ statefulSet.Spec.UpdateStrategy.Type = UnknownStrategyType
  /\ statefulSet.Spec.Replicas = <<MaxReplicas>>
  /\ statefulSet.Status.Replicas = MaxReplicas
  /\ statefulSet.Status.ReadyReplicas = MaxReplicas

\* the claimed condition without a partition
RevisionsAndCountsSettled ==
  /\ statefulSet.Status.CurrentRevision = statefulSet.Status.UpdateRevision
  /\ statefulSet.Status.CurrentReplicas = statefulSet.Status.ReadyReplicas
  /\ \/ statefulSet.Status.UpdatedReplicas = 0
     \/ statefulSet.Status.UpdatedReplicas
          = statefulSet.Status.CurrentReplicas
\* RollingUpdate, generation current, partition 0 or none
RollingWithoutPartition ==
  /\ Answered
  /\ GenerationCurrent
  /\ statefulSet.Spec.UpdateStrategy.Type
       = RollingUpdateStatefulSetStrategyType
  /\ PartitionGiven = 0

\* C16: RollingUpdate with partition 0 or none, generation current: true
\* iff the revisions are equal, current == ready, and updated is 0 or equal
\* to current.
C16_RollingUpdateIff ==
  RollingWithoutPartition => (Complete <=> RevisionsAndCountsSettled)

\* C16 (amended): RollingUpdate with partition 0 or none, generation
\* current: true iff the desired replicas, where given, equal the observed
\* and the ready replicas, the revisions are equal, current == ready, and
\* updated is 0 or equal to current.
C16_RollingUpdateIffWithDesired ==
  RollingWithoutPartition
  => (Complete <=> (DesiredObservedReady /\ RevisionsAndCountsSettled))

\* complete in the shape updated == current, not 0
C16_Witness ==
  /\ RollingWithoutPartition /\ Complete
  /\ statefulSet.Spec.Replicas = <<MaxReplicas>>
  /\ statefulSet.Status.UpdatedReplicas = MaxReplicas
  /\ statefulSet.Status.CurrentReplicas = MaxReplicas

\* RollingUpdate, generation current, desired replicas and a partition > 0
RollingWithPartition ==
  /\ Answered
  /\ GenerationCurrent
  /\ statefulSet.Spec.UpdateStrategy.Type
       = RollingUpdateStatefulSetStrategyType
  /\ statefulSet.Spec.Replicas # <<>>
  /\ PartitionGiven > 0
\* the claimed condition with a partition
PartitionedSettled ==
  /\ statefulSet.Status.CurrentRevision # statefulSet.Status.UpdateRevision
  /\ statefulSet.Status.CurrentReplicas = PartitionGiven
  /\ statefulSet.Status.UpdatedReplicas
       = statefulSet.Spec.Replicas[1] - PartitionGiven

\* C17: RollingUpdate with partition > 0, generation current: true iff the
\* revisions differ, current == partition and updated == desired - partition.
C17_PartitionedIff ==
  RollingWithPartition => (Complete <=> PartitionedSettled)

\* C17 (amended): RollingUpdate with partition > 0, generation current:
\* true iff the desired replicas equal the observed and the ready
\* replicas, the revisions differ, current == partition and
\* updated == desired - partition.
C17_PartitionedIffWithDesired ==
  RollingWithPartition
  => (Complete <=> (DesiredObservedReady /\ PartitionedSettled))

\* partition 1 of the desired replicas: one current, the others updated,
\* revisions v1 and v2: true
C17_Witness ==
  /\ RollingWithPartition /\ Complete
  /\ statefulSet.Spec.Replicas = <<MaxReplicas>>
  /\ PartitionGiven = 1
  /\ statefulSet.Status.CurrentReplicas = 1
  /\ statefulSet.Status.UpdatedReplicas = MaxReplicas - 1

\* a strategy that is neither RollingUpdate nor OnDelete, generation current
UnknownStrategy ==
  /\ Answered
  /\ GenerationCurrent
  /\ statefulSet.Spec.UpdateStrategy.Type
       \notin {RollingUpdateStatefulSetStrategyType,
               OnDeleteStatefulSetStrategyType}

\* C18: an unknown strategy is complete for every combination of replica
\* counts and revisions.
C18_UnknownStrategyComplete ==
  UnknownStrategy => Complete

\* C18 (amended): an unknown strategy behaves like OnDelete: it is complete
\* iff the desired replicas, where given, equal the observed and the ready
\* replicas; revisions, current and updated replicas and the partition are
\* not looked at.
C18_UnknownStrategyLikeOnDelete ==
  UnknownStrategy => (Complete <=> DesiredObservedReady)

\* complete although the revisions differ and nothing is updated or current
C18_Witness ==
  /\ UnknownStrategy /\ Complete
  /\ statefulSet.Spec.Replicas = <<MaxReplicas>>
  /\ statefulSet.Status.CurrentRevision # statefulSet.Status.UpdateRevision
  /\ statefulSet.Status.CurrentReplicas = 0
  /\ statefulSet.Status.UpdatedReplicas = 1

\* ------------------------------------------------- the lock discipline ---
\* the tracking, status and dedup tables of the multitracker
Tables == <<tracking, statuses, DeploymentsSpecs, ShownDeploymentMessages>>

\* a round of a registration loop: a tracking state is stored and the
\* watcher of the resource is started
RegistrationStep ==
  \E r \in Pool : wpc[r] = "none" /\ wpc'[r] = "watch"

\* the completion goroutine calls hasFailedTrackingResources and, when
\* something failed, formatFailedTrackingResourcesError
DecisionStep == cpc = "decide" /\ cpc' = "send"

\* C19: every access to the tracking, status and dedup tables is made with
\* handlerMux held by the goroutine that makes it: no table changes while
\* the lock is free, a registration round runs with the lock held by
\* Multitrack, and the completion goroutine takes its final decision with
\* the lock held by itself.
C19_TablesOnlyUnderLock ==
  [][/\ (Tables' # Tables => handlerMux # "free")
     /\ (RegistrationStep => handlerMux = "main")
     /\ (DecisionStep => handlerMux = "completion")]_vars

\* --------------------------------------------- tracked and removed -------
\* the watcher goroutine of r has been started
Spawned(r) == wpc[r] # "none"

\* r was taken out of the tracked set of its kind: by
\* handleResourceReadyCondition, or by the IgnoreAndContinueDeployProcess
\* branch of handleResourceFailure
Removed(r) ==
  /\ r \in Resources
  /\ (exit[r] = "ready" \/ Dismissed(r))

\* C20: a resource is in the tracked set of its kind from the moment its
\* watcher is started; it leaves the set only by being removed (terminal
\* success, or dismissal under IgnoreAndContinueDeployProcess); it is
\* never both tracked and removed, it enters the set only at registration,
\* and once removed it stays removed and is never tracked again.
C20_TrackedOrRemoved ==
  /\ [](\A r \in Resources :
          /\ ~(Tracked(r) /\ Removed(r))
          /\ Spawned(r) => (Tracked(r) \/ Removed(r))
          /\ ~Spawned(r) => (~Tracked(r) /\ ~Removed(r)))
  /\ [][\A r \in Resources :
          /\ (Tracked(r) /\ ~Tracked(r)') => (~Removed(r) /\ Removed(r)')
          /\ (~Tracked(r) /\ Tracked(r)') => (~Spawned(r) /\ Spawned(r)')
          /\ Removed(r) => (Removed(r)' /\ ~Tracked(r)')]_vars

\* at the return of Multitrack one resource was removed on success and
\* the other was dismissed; neither is tracked
C20_Witness ==
  \E r, t \in Resources :
    /\ exit[r] = "ready" /\ ~Tracked(r)
    /\ Dismissed(t) /\ ~Tracked(t)
    /\ mainPc = "returned"

\* ------------------------------------------------ frames after return ----
\* the errors Multitrack returns for a watcher's hard error
HardErrors == {TrackFailedError(r, err) : r \in Pool, err \in TrackErrors}

\* Multitrack returned because a watcher's Track call returned an error
ReturnedHardError == result.returned /\ result.err \in HardErrors

\* the completion goroutine writes its final report
FinalReportStep == cpc = "print" /\ cpc' = "decide"

\* C21 as stated: once Multitrack has returned, no goroutine left behind
\* writes a frame to the sink.
C21_NoFrameAfterReturn ==
  [][result.returned => sink' = sink]_vars

\* C21, amended: once Multitrack has returned, the only frame still written
\* is the final report of the completion goroutine, and only after the
\* return of a watcher's hard error; after a return of success or of the
\* aggregated error no frame is written.
C21_OnlyFinalFrameAfterHardError ==
  [][(result.returned /\ sink' # sink)
     => (ReturnedHardError /\ FinalReportStep /\ FrameWritten)]_vars

\* Multitrack returned po/a's hard error; the other watcher finished
\* later, and the completion goroutine wrote its report and is blocked on
\* its send
C21_Witness ==
  /\ ReturnedHardError
  /\ mainPc = "returned"
  /\ cpc = "send"
  /\ Len(sink) > 0

\* --------------------------------------------------------- termination ---
\* The goroutines of Multitrack under the Go scheduler: a goroutine that
\* can run does run, a Lock on a free mutex is granted, and a select with
\* a ready case takes one. Nothing is assumed about the watchers: when and
\* how a Track call returns is up to the adapter and the cluster.
Fairness ==
  /\ WF_vars(Start)
  /\ WF_vars(RegisterAndSpawn)
  /\ WF_vars(SpawnCompletion)
  /\ WF_vars(TickLock)
  /\ WF_vars(TickPrint)
  /\ WF_vars(RecvDone)
  /\ WF_vars(RecvError)
  /\ WF_vars(CompletionWait)
  /\ WF_vars(CompletionPrint)
  /\ WF_vars(CompletionDecide)

\* the runs whose termination is explored: nothing to track, or two pods
\* of one fail mode with the default tolerance
LiveInit ==
  /\ \E R \in {{}, {<<"po", "a">>, <<"po", "b">>}} :
       \E f \in [R -> RawSettings] :
         /\ \A r \in R : f[r].AllowFailuresCount = <<>>
         /\ \A r, q \in R : f[r].FailMode = f[q].FailMode
         /\ specs = MakeSpecs(R, f)
  /\ Called
  /\ NoStatefulSetCall

LiveSpec == LiveInit /\ [][Next]_vars /\ Fairness

\* every watcher goroutine has finished, none with a hard error
WatchersFinished ==
  \A r \in Resources : wpc[r] = "done" /\ exit[r] # "error"

\* Multitrack has returned nil or the aggregated error
ReturnedVerdict ==
  result.returned /\ mainPc = "returned" /\ ~ReturnedHardError

====
